---- MODULE Spec2Model ----
(***************************************************************************)
(* CraftiQ (src/app/app.py): the response parser, the archive builder and  *)
(* the Streamlit session handlers, as state machines.                      *)
(*                                                                         *)
(* A text is a sequence of tokens.  A token is one character ("{", ":",    *)
(* a line break, a double quote, ...) or a run of letters that none of the *)
(* patterns of the code can split ("json", "path", "index.html", ...).     *)
(***************************************************************************)
EXTENDS Integers, Sequences, FiniteSets, TLC

VARIABLES
    \* --- parse_json_response, called on its own (SpecParse) ---
    p_text,       \* the response text handed to parse_json_response
    p_pc,         \* "call" | "returned" | "raised"
    p_result,     \* the value returned (a JSON value), NoneVal before/without
    p_tried,      \* the strategies whose json.loads was attempted, in order
    p_inner,      \* the project JSON the text was built around, <<>> if none
    p_before,     \* the prose put before the fenced block
    \* --- create_file_structure (SpecArchive) ---
    files_data,   \* the argument: a sequence of [path, content]
    a_pc,         \* "start" | "loop" | "zip" | "finally" | "returned" | "raised"
    a_idx,        \* index of the next element of files_data to write
    a_exc,        \* TRUE when an exception is propagating through finally
    a_injected,   \* TRUE when the environment failed a step (disk full, ...)
    fs_dirs,      \* directories that exist, as absolute paths
    fs_files,     \* files that exist: a function absolute path -> content
    temp_dir,     \* the directory mkdtemp returned, <<>> before the call
    zip_entries,  \* the returned archive: a function entry name -> content
    \* --- the Streamlit session (Spec) ---
    generated_data,       \* st.session_state.generated_data
    current_query,        \* st.session_state.current_query
    show_scroll_message,  \* st.session_state.show_scroll_message
    widget_value,         \* st.session_state["user_query_input"]
    widget_param,         \* the value= the text area was last rendered with
    key_identity,         \* the framework keeps a keyed widget across value= changes
    api_key,              \* os.getenv("GOOGLE_API_KEY"): "unset" | "empty" | "set"
    model_cached,         \* st.cache_resource holds the result of setup_ai
    last_event,           \* the handler that ran last
    last_status,          \* how it ended: the branch of main it left by
    last_fail,            \* what went wrong in the last Generate, "none" if nothing
    prev_generated,       \* generated_data before the last handler ran
    last_reply,           \* the endpoint's reply in the last Generate (<<>> if none)
    called_setup,         \* the last handler called setup_ai()
    called_endpoint       \* the last handler called model.generate_content

parse_vars == <<p_text, p_pc, p_result, p_tried, p_inner, p_before>>
archive_vars == <<files_data, a_pc, a_idx, a_exc, a_injected, fs_dirs, fs_files, temp_dir, zip_entries>>
session_vars == <<generated_data, current_query, show_scroll_message, widget_value,
                  widget_param, key_identity, api_key, model_cached, last_event,
                  last_status, last_fail, prev_generated, last_reply, called_setup, called_endpoint>>
vars == <<parse_vars, archive_vars, session_vars>>

-----------------------------------------------------------------------------
(* Tokens *)

QT == "\""
NL == "\n"
SP == " "
\* one backtick character
BT == "BACKTICK"
Whitespace == {SP, NL}
Numbers == {"1", "2"}

-----------------------------------------------------------------------------
(* Python values: what json.loads returns and what session_state holds.    *)
(* Every value has the same four fields, so any two can be compared.       *)

NoneVal == [kind |-> "none", atom |-> <<>>, keys |-> <<>>, kids |-> <<>>]
StrVal(s) == [kind |-> "str", atom |-> s, keys |-> <<>>, kids |-> <<>>]
NumVal(n) == [kind |-> "num", atom |-> <<n>>, keys |-> <<>>, kids |-> <<>>]
ListVal(items) == [kind |-> "list", atom |-> <<>>, keys |-> <<>>, kids |-> items]
DictVal(ks, vs) == [kind |-> "dict", atom |-> <<>>, keys |-> ks, kids |-> vs]

IndexOf(seq, x) ==
    IF \E i \in 1..Len(seq) : seq[i] = x
    THEN CHOOSE i \in 1..Len(seq) : seq[i] = x /\ \A j \in 1..(i-1) : seq[j] # x
    ELSE 0

\* d[k] = v on a dict: a repeated key keeps its place and takes the new value
DictSet(d, k, v) ==
    LET i == IndexOf(d.keys, k) IN
    IF i = 0
    THEN DictVal(Append(d.keys, k), Append(d.kids, v))
    ELSE DictVal(d.keys, [d.kids EXCEPT ![i] = v])

HasKey(d, k) == d.kind = "dict" /\ IndexOf(d.keys, k) # 0
DictGet(d, k) == d.kids[IndexOf(d.keys, k)]

\* bool(v)
Truthy(v) ==
    CASE v.kind = "none" -> FALSE
      [] v.kind = "str"  -> v.atom # <<>>
      [] v.kind = "num"  -> TRUE
      [] v.kind = "list" -> v.kids # <<>>
      [] v.kind = "dict" -> v.keys # <<>>
      [] OTHER -> FALSE

-----------------------------------------------------------------------------
(* json.loads, as the standard decoder scans: whitespace is skipped        *)
(* between tokens, a string runs to the next double quote and holds no     *)
(* line break (strict mode), an object's keys are strings, and nothing but *)
(* whitespace may follow the value.                                        *)

Fail == [ok |-> FALSE, val |-> NoneVal, next |-> 0]
Ok(v, n) == [ok |-> TRUE, val |-> v, next |-> n]

RECURSIVE SkipWs(_, _)
SkipWs(t, i) ==
    IF i <= Len(t) /\ t[i] \in Whitespace THEN SkipWs(t, i + 1) ELSE i

\* t[i] is the opening quote
ScanString(t, i) ==
    LET closing == {j \in (i+1)..Len(t) : t[j] = QT} IN
    IF closing = {} THEN Fail
    ELSE LET j == CHOOSE j \in closing : \A k \in closing : j <= k IN
         IF \E k \in (i+1)..(j-1) : t[k] = NL
         THEN Fail
         ELSE Ok(StrVal(SubSeq(t, i + 1, j - 1)), j + 1)

RECURSIVE ScanValue(_, _), ScanElems(_, _, _), ScanMembers(_, _, _)

\* after "[" or after a ",": one element, then "," or "]"
ScanElems(t, i, acc) ==
    LET r == ScanValue(t, i) IN
    IF ~r.ok THEN Fail
    ELSE LET j == SkipWs(t, r.next) IN
         IF j > Len(t) THEN Fail
         ELSE IF t[j] = "]" THEN Ok(ListVal(Append(acc, r.val)), j + 1)
         ELSE IF t[j] = "," THEN ScanElems(t, j + 1, Append(acc, r.val))
         ELSE Fail

\* after "{" or after a ",": "key" : value, then "," or "}"
ScanMembers(t, i, acc) ==
    LET k == SkipWs(t, i) IN
    IF k > Len(t) \/ t[k] # QT THEN Fail
    ELSE LET key == ScanString(t, k) IN
         IF ~key.ok THEN Fail
         ELSE LET c == SkipWs(t, key.next) IN
              IF c > Len(t) \/ t[c] # ":" THEN Fail
              ELSE LET r == ScanValue(t, c + 1) IN
                   IF ~r.ok THEN Fail
                   ELSE LET j == SkipWs(t, r.next)
                            d == DictSet(acc, key.val.atom, r.val) IN
                        IF j > Len(t) THEN Fail
                        ELSE IF t[j] = "}" THEN Ok(d, j + 1)
                        ELSE IF t[j] = "," THEN ScanMembers(t, j + 1, d)
                        ELSE Fail

ScanValue(t, i) ==
    LET j == SkipWs(t, i) IN
    IF j > Len(t) THEN Fail
    ELSE IF t[j] = QT THEN ScanString(t, j)
    ELSE IF t[j] \in Numbers THEN Ok(NumVal(t[j]), j + 1)
    ELSE IF t[j] = "null" THEN Ok(NoneVal, j + 1)
    ELSE IF t[j] = "[" THEN
        LET e == SkipWs(t, j + 1) IN
        IF e <= Len(t) /\ t[e] = "]" THEN Ok(ListVal(<<>>), e + 1)
        ELSE ScanElems(t, j + 1, <<>>)
    ELSE IF t[j] = "{" THEN
        LET e == SkipWs(t, j + 1) IN
        IF e <= Len(t) /\ t[e] = "}" THEN Ok(DictVal(<<>>, <<>>), e + 1)
        ELSE ScanMembers(t, j + 1, DictVal(<<>>, <<>>))
    ELSE Fail

\* json.loads(t): ok = FALSE stands for json.JSONDecodeError
json_loads(t) ==
    LET r == ScanValue(t, 1) IN
    IF r.ok /\ SkipWs(t, r.next) > Len(t) THEN Ok(r.val, r.next) ELSE Fail

-----------------------------------------------------------------------------
(* re.search(r"```(?:json)?\n(.*?)\n```", text, re.DOTALL)                 *)

IsFence(t, i) == i + 2 <= Len(t) /\ t[i] = BT /\ t[i+1] = BT /\ t[i+2] = BT

\* the opening with the tag made mandatory: ```json\n
OpeningAtTagRequired(t, s) ==
    IF IsFence(t, s) /\ s + 4 <= Len(t) /\ t[s+3] = "json" /\ t[s+4] = NL
    THEN s + 5
    ELSE 0

\* where group(1) starts if the opening ```(?:json)?\n matches at s, else 0
OpeningAt(t, s) ==
    IF ~IsFence(t, s) THEN 0
    ELSE IF s + 4 <= Len(t) /\ t[s+3] = "json" /\ t[s+4] = NL THEN s + 5
    ELSE IF s + 3 <= Len(t) /\ t[s+3] = NL THEN s + 4
    ELSE 0

\* (.*?)\n``` from position e on: the first line break followed by a fence
RECURSIVE LazyClose(_, _)
LazyClose(t, e) ==
    IF e > Len(t) THEN 0
    ELSE IF t[e] = NL /\ IsFence(t, e + 1) THEN e
    ELSE LazyClose(t, e + 1)

\* the leftmost match: [found, group1]
RECURSIVE SearchFrom(_, _)
SearchFrom(t, s) ==
    IF s > Len(t) THEN [found |-> FALSE, group1 |-> <<>>]
    ELSE LET g == OpeningAt(t, s)
             e == IF g = 0 THEN 0 ELSE LazyClose(t, g) IN
         IF g # 0 /\ e # 0
         THEN [found |-> TRUE, group1 |-> SubSeq(t, g, e - 1)]
         ELSE SearchFrom(t, s + 1)

re_search_fence(t) == SearchFrom(t, 1)

-----------------------------------------------------------------------------
(* str.find, str.rfind and slicing, with Python's 0-based indices          *)

str_find(t, c) == IndexOf(t, c) - 1

str_rfind(t, c) ==
    IF \E i \in 1..Len(t) : t[i] = c
    THEN (CHOOSE i \in 1..Len(t) : t[i] = c /\ \A j \in (i+1)..Len(t) : t[j] # c) - 1
    ELSE -1

\* t[a:b] for 0 <= a, 0 <= b
Slice(t, a, b) == SubSeq(t, a + 1, IF b > Len(t) THEN Len(t) ELSE b)

-----------------------------------------------------------------------------
(* parse_json_response: [status, value, tried]                             *)

Returned(v, tried) == [status |-> "returned", value |-> v, tried |-> tried]
Raised(tried) == [status |-> "raised", value |-> NoneVal, tried |-> tried]

\* lines 78-87: the text from the first "{" to the last "}"
BraceFallback(t, tried) ==
    LET json_start == str_find(t, "{")
        json_end == str_rfind(t, "}") + 1 IN
    IF json_start # -1 /\ json_end # -1
    THEN LET r == json_loads(Slice(t, json_start, json_end)) IN
         IF r.ok THEN Returned(r.val, Append(tried, 3))
         ELSE Raised(Append(tried, 3))
    ELSE Raised(tried)

\* the two fallbacks in the other order
FenceFallbackBraceFirst(t, tried) ==
    LET b == BraceFallback(t, tried)
        json_match == re_search_fence(t) IN
    IF b.status = "returned" THEN b
    ELSE IF json_match.found
    THEN LET r == json_loads(json_match.group1) IN
         IF r.ok THEN Returned(r.val, Append(b.tried, 2))
         ELSE Raised(Append(b.tried, 2))
    ELSE b

\* lines 68-87: the except branch of the direct parse
FenceFallback(t, tried) ==
    LET json_match == re_search_fence(t) IN
    IF json_match.found
    THEN LET r == json_loads(json_match.group1) IN
         IF r.ok THEN Returned(r.val, Append(tried, 2))
         ELSE BraceFallback(t, Append(tried, 2))
    ELSE BraceFallback(t, tried)

parse_json_response(t) ==
    LET r == json_loads(t) IN
    IF r.ok THEN Returned(r.val, <<1>>)
    ELSE FenceFallback(t, <<1>>)

-----------------------------------------------------------------------------
(* Response texts *)

Fence == <<BT, BT, BT>>
Str(w) == <<QT>> \o w \o <<QT>>
Member(k, v) == Str(<<k>>) \o <<":">> \o v
FileJ(path, content) ==
    <<"{">> \o Member("path", Str(<<path>>)) \o <<",">>
            \o Member("content", Str(content)) \o <<"}">>

\* the shape the prompt asks for (lines 111-129), one file
ProjectCompact ==
    <<"{">> \o Member("project_name", Str(<<"site">>)) \o <<",">>
            \o Member("description", Str(<<"demo">>)) \o <<",">>
            \o Member("features", <<"[">> \o Str(<<"fast">>) \o <<"]">>) \o <<",">>
            \o Member("files", <<"[">> \o FileJ("index.html", <<"<h1>">>) \o <<"]">>)
    \o <<"}">>

\* two files; a content holds braces, a fence and the word json
ProjectTricky ==
    <<"{">> \o Member("project_name", Str(<<"site">>)) \o <<",">>
            \o Member("description", Str(<<"a", SP, "{", "b", "}">>)) \o <<",">>
            \o Member("features", <<"[">> \o Str(<<"fast">>) \o <<",">> \o Str(<<"json">>) \o <<"]">>) \o <<",">>
            \o Member("files", <<"[">> \o FileJ("index.html", <<"<h1>">>) \o <<",">>
                                       \o FileJ("js/script.js", <<BT, BT, BT, "json", "}", "{">>)
                               \o <<"]">>)
    \o <<"}">>

\* pretty-printed: line breaks between the tokens, one before a string that
\* starts with a fence, one at the end
ProjectPretty ==
    <<"{", NL, SP>> \o Member("project_name", Str(<<"site">>)) \o <<",", NL, SP>>
            \o Member("description", <<SP>> \o Str(<<"demo">>)) \o <<",", NL>>
            \o Member("features", <<"[", NL>> \o Str(<<BT, BT, BT>>) \o <<NL, "]">>) \o <<",", NL>>
            \o Member("files", <<"[">> \o FileJ("css/style.css", <<"h1", "{", "}">>) \o <<"]">>)
    \o <<NL, "}", NL>>

Projects == {ProjectCompact, ProjectTricky, ProjectPretty}

\* a fenced code block around j, tagged json or not
Wrap(j, tagged) ==
    Fence \o (IF tagged THEN <<"json">> ELSE <<>>) \o <<NL>> \o j \o <<NL>> \o Fence

ProseBefore ==
    { <<>>,
      <<"Here", SP, "is", SP, "your", SP, "site", ":", NL>>,
      <<"Use", SP, "{", "braces", "}", NL>>,
      <<BT>>,
      \* an earlier fenced block (a file tree), then the answer
      Fence \o <<NL, "index.html", NL>> \o Fence \o <<NL, "{", "x", "}", NL>>,
      \* an earlier fenced block that holds JSON itself
      Fence \o <<"json", NL, "{", "}", NL>> \o Fence \o <<NL>> }

ProseAfter ==
    { <<>>,
      <<NL, "Enjoy", "}">>,
      <<NL>> \o Fence \o <<NL, "[", "]", NL>> \o Fence }

\* replies that are not a project
OtherTexts ==
    { <<>>,
      <<"hello">>,
      <<"[", "]">>,
      <<"[", "1", "]">>,
      <<"[">> \o Str(<<"error">>) \o <<"]">>,
      <<"{", "}">>,
      <<SP, "{", "}", NL>>,
      <<"1">>,
      <<"null">>,
      Str(<<"hello">>),
      Str(<<"an", SP, "error">>),
      <<"{">> \o Member("error", Str(<<"quota">>)) \o <<"}">>,
      <<"{">> \o Member("project_name", Str(<<"site">>)) \o <<"}">>,
      <<"{">> \o Member("files", <<"[", "]">>) \o <<"}">>,
      <<"{">> \o Member("files", <<"[", "1", "]">>) \o <<"}">>,
      <<"{">> \o Member("files", <<"1">>) \o <<"}">>,
      <<"{">> \o Member("a", <<"1">>) \o <<",">> \o Member("a", <<"2">>) \o <<"}">>,
      <<"{">> \o Member("a", <<"1">>) \o <<",", "}">>,
      <<"{">>,
      <<"}", "{">>,
      <<"x", SP, "{", "}", SP, "y">>,
      <<"x", SP, "{", "}", SP, "}">>,
      <<"[", "{", "}", "]", "x">>,
      Fence \o <<NL, "[", "{", "}", "]", NL>> \o Fence,
      Fence \o <<"[", "{", "}", "]">> \o Fence,
      Fence \o <<"js", NL, "[", "{", "}", "]", NL>> \o Fence,
      Fence \o <<NL, "foo", NL>> \o Fence \o <<SP, "{", "}">>,
      Fence \o <<NL, "foo", NL>> \o Fence \o <<SP, "[", "]">>,
      Fence \o <<NL, NL>> \o Fence,
      Fence \o <<NL>> \o Fence,
      <<"{", QT, "a", NL, QT, ":", "1", "}">> }

\* [text, inner, before]
WrappedCases ==
    { [text |-> b \o Wrap(j, tagged) \o a, inner |-> j, before |-> b] :
        j \in Projects, tagged \in BOOLEAN, b \in ProseBefore, a \in ProseAfter }

PlainCases ==
    { [text |-> t, inner |-> <<>>, before |-> <<>>] : t \in OtherTexts \cup Projects }

ParseCases == WrappedCases \cup PlainCases

-----------------------------------------------------------------------------
(* parse_json_response called on its own *)

ParseIdle ==
    /\ p_text = <<>>
    /\ p_pc = "idle"
    /\ p_result = NoneVal
    /\ p_tried = <<>>
    /\ p_inner = <<>>
    /\ p_before = <<>>

ArchiveIdle ==
    /\ files_data = <<>>
    /\ a_pc = "idle"
    /\ a_idx = 0
    /\ a_exc = FALSE
    /\ a_injected = FALSE
    /\ fs_dirs = {}
    /\ fs_files = <<>>
    /\ temp_dir = <<>>
    /\ zip_entries = <<>>

SessionIdle ==
    /\ generated_data = NoneVal
    /\ current_query = ""
    /\ show_scroll_message = FALSE
    /\ widget_value = ""
    /\ widget_param = ""
    /\ key_identity = FALSE
    /\ api_key = "unset"
    /\ model_cached = FALSE
    /\ last_event = "none"
    /\ last_status = "none"
    /\ last_fail = "none"
    /\ prev_generated = NoneVal
    /\ last_reply = <<>>
    /\ called_setup = FALSE
    /\ called_endpoint = FALSE

InitParse ==
    /\ \E c \in ParseCases :
        /\ p_text = c.text
        /\ p_inner = c.inner
        /\ p_before = c.before
    /\ p_pc = "call"
    /\ p_result = NoneVal
    /\ p_tried = <<>>
    /\ ArchiveIdle
    /\ SessionIdle

ParseCall ==
    /\ p_pc = "call"
    /\ LET r == parse_json_response(p_text) IN
        /\ p_pc' = r.status
        /\ p_result' = r.value
        /\ p_tried' = r.tried
    /\ UNCHANGED <<p_text, p_inner, p_before, archive_vars, session_vars>>

NextParse == ParseCall

SpecParse == InitParse /\ [][NextParse]_vars

-----------------------------------------------------------------------------
(* The three strategies as the parsing contract words them *)

WholeText(t) == json_loads(t)

\* positions where a fenced block opens: a fence, an optional json tag, a line break
BlockOpens(t) ==
    {s \in 1..Len(t) : IsFence(t, s) /\ s + 3 <= Len(t)
                        /\ (t[s+3] = NL \/ (t[s+3] = "json" /\ s + 4 <= Len(t) /\ t[s+4] = NL))}
InteriorStart(t, s) == IF t[s+3] = NL THEN s + 4 ELSE s + 5
BlockCloses(t, g) == {e \in g..Len(t) : t[e] = NL /\ IsFence(t, e + 1)}
Blocks(t) == {s \in BlockOpens(t) : BlockCloses(t, InteriorStart(t, s)) # {}}
MinOf(S) == CHOOSE x \in S : \A y \in S : x <= y
MaxOf(S) == CHOOSE x \in S : \A y \in S : x >= y

FirstFencedBlock(t) ==
    IF Blocks(t) = {} THEN Fail
    ELSE LET s == MinOf(Blocks(t))
             g == InteriorStart(t, s)
             e == MinOf(BlockCloses(t, g)) IN
         json_loads(SubSeq(t, g, e - 1))

FirstToLastBrace(t) ==
    LET opens == {i \in 1..Len(t) : t[i] = "{"}
        closes == {i \in 1..Len(t) : t[i] = "}"} IN
    IF opens = {} \/ closes = {} THEN Fail
    ELSE json_loads(SubSeq(t, MinOf(opens), MaxOf(closes)))

InSeq(x, seq) == \E i \in 1..Len(seq) : seq[i] = x

\* C4: parse_json_response returns the result of the first of the three
\* strategies (whole text, first fenced block, first "{" to last "}") that
\* succeeds, attempts a strategy only after every earlier one has failed, and
\* raises exactly when all three fail.
StrategyChainInOrder ==
    p_pc \in {"returned", "raised"} =>
        LET s1 == WholeText(p_text)
            s2 == FirstFencedBlock(p_text)
            s3 == FirstToLastBrace(p_text) IN
        /\ s1.ok => (p_pc = "returned" /\ p_result = s1.val)
        /\ (~s1.ok /\ s2.ok) => (p_pc = "returned" /\ p_result = s2.val)
        /\ (~s1.ok /\ ~s2.ok /\ s3.ok) => (p_pc = "returned" /\ p_result = s3.val)
        /\ (p_pc = "raised") <=> (~s1.ok /\ ~s2.ok /\ ~s3.ok)
        /\ InSeq(1, p_tried)
        /\ InSeq(2, p_tried) => ~s1.ok
        /\ InSeq(3, p_tried) => (~s1.ok /\ ~s2.ok)
        /\ \A i, j \in 1..Len(p_tried) : i < j => p_tried[i] < p_tried[j]

\* the third strategy decided, after the first two were attempted and failed,
\* on a text whose fenced block and brace span both exist
StrategyChainWitness ==
    /\ p_pc = "returned"
    /\ p_tried = <<1, 2, 3>>
    /\ Blocks(p_text) # {}
    /\ p_result = FirstToLastBrace(p_text).val

NoFence(t) == \A i \in 1..Len(t) : ~IsFence(t, i)

\* C5 as stated: a well-formed project wrapped in a fenced block, tagged
\* json or not, with any prose around it, parses to what the bare project
\* parses to.
FencedParsesAsUnwrappedAnyProse ==
    (p_pc \in {"returned", "raised"} /\ p_inner # <<>>) =>
        /\ p_pc = "returned"
        /\ parse_json_response(p_inner).status = "returned"
        /\ p_result = parse_json_response(p_inner).value

\* C5 amended: the same, when the prose before the block holds no
\* triple-backtick fence of its own.
FencedParsesAsUnwrapped ==
    (p_pc \in {"returned", "raised"} /\ p_inner # <<>> /\ NoFence(p_before)) =>
        /\ p_pc = "returned"
        /\ parse_json_response(p_inner).status = "returned"
        /\ p_result = parse_json_response(p_inner).value

\* an untagged block after prose with braces in it, decided by the fence strategy
FencedParsesWitness ==
    /\ p_pc = "returned"
    /\ p_inner # <<>>
    /\ p_before # <<>>
    /\ NoFence(p_before)
    /\ InSeq("{", p_before)
    /\ p_tried = <<1, 2>>
    /\ ~InSeq("json", SubSeq(p_text, 1, Len(p_before) + 4))
    /\ p_result = parse_json_response(p_inner).value
    /\ p_result.kind = "dict"

-----------------------------------------------------------------------------
(* create_file_structure.  A file system path is the sequence of its       *)
(* segments from the root; a path of files_data is [abs, segs], its        *)
(* segments as written, "." and ".." included.                             *)

MaxFiles == 3

Rel(segs) == [abs |-> FALSE, segs |-> segs]
Abs(segs) == [abs |-> TRUE, segs |-> segs]

InputPaths ==
    { Rel(<<"index.html">>),
      Rel(<<"css", "style.css">>),
      Rel(<<"css">>),
      Rel(<<".", "index.html">>),
      Rel(<<"..", "evil.txt">>),
      Abs(<<"home", "www", "evil.txt">>),
      Rel(<<>>) }

\* the i-th element carries the content "c<i>"
ContentAt(i) == <<"c", i>>

FileLists ==
    UNION { { [i \in 1..n |-> [path |-> ps[i], content |-> ContentAt(i)]] :
                ps \in [1..n -> InputPaths] } : n \in 1..MaxFiles }

InitialDirs == {<<>>, <<"tmp">>, <<"home">>}
InitialFiles == (<<"home", "notes.txt">> :> <<"old">>)

\* tempfile.mkdtemp(): a directory under /tmp that did not exist
TempNames == {"tmpA", "tmpB"}

IsPrefix(a, b) == Len(a) <= Len(b) /\ SubSeq(b, 1, Len(a)) = a

RECURSIVE DropDots(_)
DropDots(segs) ==
    IF segs = <<>> THEN <<>>
    ELSE IF Head(segs) = "." THEN DropDots(Tail(segs))
    ELSE <<Head(segs)>> \o DropDots(Tail(segs))

\* Path(temp_dir) / file_info["path"]: an absolute operand replaces the
\* left side, "." segments are dropped, ".." segments are kept
PathJoin(root, p) ==
    IF p.abs THEN DropDots(p.segs) ELSE root \o DropDots(p.segs)

\* what the operating system makes of a path: ".." steps to the parent
RECURSIVE Resolve(_)
Resolve(lex) ==
    IF lex = <<>> THEN <<>>
    ELSE LET up == Resolve(SubSeq(lex, 1, Len(lex) - 1)) IN
         IF lex[Len(lex)] = ".."
         THEN (IF up = <<>> THEN <<>> ELSE SubSeq(up, 1, Len(up) - 1))
         ELSE Append(up, lex[Len(lex)])

\* file_path.parent
Parent(lex) == IF lex = <<>> THEN <<>> ELSE SubSeq(lex, 1, Len(lex) - 1)

\* file_path.parent.mkdir(parents=True, exist_ok=True): every missing
\* prefix is created, from the root down; a prefix that is a file is an error
RECURSIVE MkdirParents(_, _, _, _)
MkdirParents(dirs, files, lex, n) ==
    IF n > Len(lex) THEN [ok |-> TRUE, dirs |-> dirs]
    ELSE LET d == Resolve(SubSeq(lex, 1, n)) IN
         IF d \in DOMAIN files THEN [ok |-> FALSE, dirs |-> dirs]
         ELSE MkdirParents(dirs \cup {d}, files, lex, n + 1)

\* a second write to a path leaves the first content in place
OpenWriteKeepFirst(dirs, files, lex, content) ==
    LET target == Resolve(lex) IN
    IF target \in dirs THEN [ok |-> FALSE, files |-> files]
    ELSE IF target \in DOMAIN files THEN [ok |-> TRUE, files |-> files]
    ELSE [ok |-> TRUE, files |-> (target :> content) @@ files]

\* open(file_path, "w") and f.write(content): a directory cannot be opened,
\* an existing file is truncated
OpenWrite(dirs, files, lex, content) ==
    LET target == Resolve(lex) IN
    IF target \in dirs THEN [ok |-> FALSE, files |-> files]
    ELSE [ok |-> TRUE, files |-> (target :> content) @@ files]

\* the walk of lines 49-53: every file under root, named by os.path.relpath
ZipOf(files, root) ==
    LET under == {f \in DOMAIN files : IsPrefix(root, f) /\ f # root} IN
    [name \in {SubSeq(f, Len(root) + 1, Len(f)) : f \in under} |-> files[root \o name]]

\* shutil.rmtree(root) leaving the directories behind
RmtreeFilesOnly(dirs, files, root) ==
    [dirs |-> dirs,
     files |-> [f \in {g \in DOMAIN files : ~IsPrefix(root, g)} |-> files[f]]]

\* shutil.rmtree(root)
Rmtree(dirs, files, root) ==
    [dirs |-> {d \in dirs : ~IsPrefix(root, d)},
     files |-> [f \in {g \in DOMAIN files : ~IsPrefix(root, g)} |-> files[f]]]

InitArchive ==
    /\ files_data \in FileLists
    /\ a_pc = "start"
    /\ a_idx = 0
    /\ a_exc = FALSE
    /\ a_injected = FALSE
    /\ fs_dirs = InitialDirs
    /\ fs_files = InitialFiles
    /\ temp_dir = <<>>
    /\ zip_entries = <<>>
    /\ ParseIdle
    /\ SessionIdle

\* line 36
Mkdtemp ==
    /\ a_pc = "start"
    /\ \E name \in TempNames :
        /\ <<"tmp", name>> \notin fs_dirs
        /\ temp_dir' = <<"tmp", name>>
        /\ fs_dirs' = fs_dirs \cup {<<"tmp", name>>}
    /\ a_pc' = "loop"
    /\ a_idx' = 1
    /\ UNCHANGED <<files_data, a_exc, a_injected, fs_files, zip_entries, parse_vars, session_vars>>

\* lines 39-44, one iteration
WriteFile ==
    /\ a_pc = "loop"
    /\ a_idx <= Len(files_data)
    /\ LET file_info == files_data[a_idx]
           file_path == PathJoin(temp_dir, file_info.path)
           made == MkdirParents(fs_dirs, fs_files, Parent(file_path), 1)
           wrote == OpenWrite(made.dirs, fs_files, file_path, file_info.content) IN
        /\ fs_dirs' = made.dirs
        /\ IF made.ok /\ wrote.ok
           THEN /\ fs_files' = wrote.files
                /\ a_idx' = a_idx + 1
                /\ UNCHANGED <<a_pc, a_exc>>
           ELSE /\ a_pc' = "finally"
                /\ a_exc' = TRUE
                /\ UNCHANGED <<fs_files, a_idx>>
    /\ UNCHANGED <<files_data, a_injected, temp_dir, zip_entries, parse_vars, session_vars>>

\* lines 41-44 failing for a reason outside the program (disk full, no
\* permission): before the directories are made, or after
WriteFails ==
    /\ a_pc = "loop"
    /\ a_idx <= Len(files_data)
    /\ LET file_path == PathJoin(temp_dir, files_data[a_idx].path)
           made == MkdirParents(fs_dirs, fs_files, Parent(file_path), 1) IN
        \/ UNCHANGED fs_dirs
        \/ made.ok /\ fs_dirs' = made.dirs
    /\ a_pc' = "finally"
    /\ a_exc' = TRUE
    /\ a_injected' = TRUE
    /\ UNCHANGED <<files_data, a_idx, fs_files, temp_dir, zip_entries, parse_vars, session_vars>>

\* lines 46-56
ZipStep ==
    /\ a_pc = "loop"
    /\ a_idx > Len(files_data)
    /\ zip_entries' = ZipOf(fs_files, temp_dir)
    /\ a_pc' = "finally"
    /\ UNCHANGED <<files_data, a_idx, a_exc, a_injected, fs_dirs, fs_files, temp_dir, parse_vars, session_vars>>

\* lines 47-53 failing for a reason outside the program
ZipFails ==
    /\ a_pc = "loop"
    /\ a_idx > Len(files_data)
    /\ a_pc' = "finally"
    /\ a_exc' = TRUE
    /\ a_injected' = TRUE
    /\ UNCHANGED <<files_data, a_idx, fs_dirs, fs_files, temp_dir, zip_entries, parse_vars, session_vars>>

\* the cleanup written after the return instead of in a finally clause
FinallyOnlyOnReturn ==
    /\ a_pc = "finally"
    /\ LET left == IF a_exc
                   THEN [dirs |-> fs_dirs, files |-> fs_files]
                   ELSE Rmtree(fs_dirs, fs_files, temp_dir) IN
        /\ fs_dirs' = left.dirs
        /\ fs_files' = left.files
    /\ a_pc' = IF a_exc THEN "raised" ELSE "returned"
    /\ zip_entries' = IF a_exc THEN <<>> ELSE zip_entries
    /\ UNCHANGED <<files_data, a_idx, a_exc, a_injected, temp_dir, parse_vars, session_vars>>

\* lines 58-59, then the return or the propagating exception
Finally ==
    /\ a_pc = "finally"
    /\ LET left == Rmtree(fs_dirs, fs_files, temp_dir) IN
        /\ fs_dirs' = left.dirs
        /\ fs_files' = left.files
    /\ a_pc' = IF a_exc THEN "raised" ELSE "returned"
    /\ zip_entries' = IF a_exc THEN <<>> ELSE zip_entries
    /\ UNCHANGED <<files_data, a_idx, a_exc, a_injected, temp_dir, parse_vars, session_vars>>

NextArchive ==
    \/ Mkdtemp
    \/ WriteFile
    \/ WriteFails
    \/ ZipStep
    \/ ZipFails
    \/ Finally

SpecArchive == InitArchive /\ [][NextArchive]_vars

ArchiveDone == a_pc \in {"returned", "raised"}

\* C6: after any call of create_file_structure, returned or raised, the
\* temporary directory allocated for the call no longer exists, nor does
\* anything under it.
TempDirAlwaysRemoved ==
    ArchiveDone =>
        /\ temp_dir # <<>>
        /\ temp_dir \notin fs_dirs
        /\ \A d \in fs_dirs : ~IsPrefix(temp_dir, d)
        /\ \A f \in DOMAIN fs_files : ~IsPrefix(temp_dir, f)

\* a write failed on the second of three files, the first having been written
TempDirRemovedWitness ==
    /\ a_pc = "raised"
    /\ Len(files_data) = 3
    /\ a_idx = 2
    /\ a_injected
    /\ files_data[1].path = Rel(<<"css", "style.css">>)
    /\ temp_dir \notin fs_dirs

Paths(fd) == {fd[i].path : i \in 1..Len(fd)}
LastWith(fd, p) == CHOOSE i \in 1..Len(fd) : fd[i].path = p /\ \A j \in (i+1)..Len(fd) : fd[j].path # p

\* one entry per distinct input path, named as the path is written, holding
\* the content of the last element with that path
ExpectedArchive(fd) ==
    [name \in {p.segs : p \in Paths(fd)} |-> fd[LastWith(fd, Rel(name))].content]

RelativeNoParent(fd) ==
    \A p \in Paths(fd) : ~p.abs /\ \A i \in 1..Len(p.segs) : p.segs[i] # ".."

\* no empty path and no "." segment
NormalForm(fd) ==
    \A p \in Paths(fd) : p.segs # <<>> /\ \A i \in 1..Len(p.segs) : p.segs[i] # "."

\* no path names a directory that another path lies in
NoFileDirClash(fd) ==
    \A p, q \in Paths(fd) : p # q => ~IsPrefix(p.segs, q.segs)

\* C7 as stated, read in its most favourable sense (paths not empty and
\* without "." segments): for relative paths without parent segments the call
\* returns an archive with exactly the distinct input paths, last content
\* winning.
ArchiveMatchesInputAnyRelative ==
    (ArchiveDone /\ ~a_injected /\ RelativeNoParent(files_data) /\ NormalForm(files_data)) =>
        /\ a_pc = "returned"
        /\ zip_entries = ExpectedArchive(files_data)

\* C7 amended: the same for paths in normal form (not empty, no "." segment)
\* of which none is a directory prefix of another, when no step fails for a
\* reason outside the program.
ArchiveMatchesInput ==
    (ArchiveDone /\ ~a_injected /\ RelativeNoParent(files_data)
        /\ NormalForm(files_data) /\ NoFileDirClash(files_data)) =>
        /\ a_pc = "returned"
        /\ zip_entries = ExpectedArchive(files_data)

\* index.html twice and css/style.css: two entries, the later index.html kept
ArchiveMatchesWitness ==
    /\ a_pc = "returned"
    /\ Len(files_data) = 3
    /\ files_data[1].path = Rel(<<"index.html">>)
    /\ files_data[2].path = Rel(<<"css", "style.css">>)
    /\ files_data[3].path = Rel(<<"index.html">>)
    /\ DOMAIN zip_entries = {<<"index.html">>, <<"css", "style.css">>}
    /\ zip_entries[<<"index.html">>] = ContentAt(3)

\* C10: whatever the paths, nothing a build creates lies outside its
\* temporary root, so after the call the file system is as it was before.
NothingEscapesTempRoot ==
    /\ (a_pc \in {"loop", "finally"}) =>
        /\ \A d \in fs_dirs \ InitialDirs : IsPrefix(temp_dir, d)
        /\ \A f \in DOMAIN fs_files : f \in DOMAIN InitialFiles \/ IsPrefix(temp_dir, f)
    /\ ArchiveDone => (fs_dirs = InitialDirs /\ fs_files = InitialFiles)

-----------------------------------------------------------------------------
(* The Streamlit session: one action per user event, each the script run   *)
(* it starts and the rerun that run asks for.  The file system work of the *)
(* display section (line 361) is the subject of SpecArchive; it leaves     *)
(* session_state alone and its exceptions are caught (line 374).           *)

\* user_query.strip() is empty for these
BlankQueries == {"", "   "}
ExampleQueries == {"Create a portfolio website for a web developer",
                   "Make a todo app with dark theme"}
Queries == BlankQueries \cup ExampleQueries \cup {"a blog"}

\* what the endpoint may answer
Replies ==
    { ProjectCompact,
      ProjectPretty,
      <<"Here", SP, "it", SP, "is", ":", NL>> \o Wrap(ProjectTricky, TRUE),
      <<"hello">>,
      <<"{">>,
      <<"[", "]">>,
      <<"[", "1", "]">>,
      <<"[">> \o Str(<<"error">>) \o <<"]">>,
      <<"{", "}">>,
      <<"1">>,
      <<"null">>,
      Str(<<"hello">>),
      Str(<<"an", SP, "error">>),
      <<"{">> \o Member("error", Str(<<"quota">>)) \o <<"}">>,
      <<"{">> \o Member("project_name", Str(<<"site">>)) \o <<"}">>,
      <<"{">> \o Member("files", <<"[", "]">>) \o <<"}">>,
      <<"{">> \o Member("files", <<"[", "1", "]">>) \o <<"}">> }

Key(k) == <<k>>
ErrorDict == DictVal(<<Key("error")>>, <<StrVal(<<"message">>)>>)

\* the check of line 274 left out
CredentialNeverMissing(key) == FALSE

\* line 274: not os.getenv("GOOGLE_API_KEY")
CredentialMissing(key) == key \in {"unset", "empty"}

\* a result is never taken for an error
ErrorInNever(result) == "false"

\* line 292: "error" in result -- a key of a dict, an element of a list, a
\* substring of a str; a TypeError for a number or None
ErrorIn(result) ==
    CASE result.kind = "dict" -> IF HasKey(result, Key("error")) THEN "true" ELSE "false"
      [] result.kind = "list" ->
            IF \E i \in 1..Len(result.kids) : result.kids[i] = StrVal(<<"error">>)
            THEN "true" ELSE "false"
      [] result.kind = "str" -> IF InSeq("error", result.atom) THEN "true" ELSE "false"
      [] OTHER -> "TypeError"

\* lines 134-140: the endpoint raised (reply.raised) or answered reply.text;
\* fail says which of the two except cases, if any, applied
generate_website_files(reply) ==
    IF reply.raised THEN [result |-> ErrorDict, fail |-> "endpoint_failed"]
    ELSE LET r == parse_json_response(reply.text) IN
         IF r.status = "returned"
         THEN [result |-> r.value, fail |-> "none"]
         ELSE [result |-> ErrorDict, fail |-> "unparseable"]

EndpointReplies ==
    {[raised |-> TRUE, text |-> <<>>]} \cup {[raised |-> FALSE, text |-> t] : t \in Replies}

\* generate_website_files on every reply, evaluated once
Generations ==
    { [reply |-> r, out |-> generate_website_files(r)] : r \in EndpointReplies }

Session ==
    [generated_data |-> generated_data, current_query |-> current_query,
     show_scroll_message |-> show_scroll_message,
     widget_value |-> widget_value, widget_param |-> widget_param]

\* lines 255-266: the text area is rendered with value=current_query and
\* returns its own state if the framework takes it for the widget of the
\* last run, the value= otherwise; current_query follows what it returns
TextArea(ss) ==
    LET param == ss.current_query
        kept == key_identity \/ param = ss.widget_param
        user_query == IF kept THEN ss.widget_value ELSE param IN
    [ss EXCEPT !.widget_value = user_query,
               !.widget_param = param,
               !.current_query = user_query]

Sized(v) == v.kind \in {"str", "list", "dict"}
FilesOf(data) == IF HasKey(data, Key("files")) THEN DictGet(data, Key("files")) ELSE ListVal(<<>>)

\* lines 380-408 run through for this files value
PreviewRuns(files) ==
    \/ ~Truthy(files)
    \/ /\ files.kind = "list"
       /\ \A i \in 1..Len(files.kids) :
            /\ HasKey(files.kids[i], Key("path"))
            /\ DictGet(files.kids[i], Key("path")).kind = "str"
            /\ HasKey(files.kids[i], Key("content"))
            /\ DictGet(files.kids[i], Key("content")).kind = "str"

\* the script reaches the Clear button of line 411: lines 322-408 raise
\* nothing that is not caught
ClearRendered(data) ==
    /\ Truthy(data)
    /\ data.kind = "dict"
    /\ Sized(FilesOf(data))
    /\ HasKey(data, Key("features")) /\ Truthy(DictGet(data, Key("features")))
          => Sized(DictGet(data, Key("features")))
    /\ PreviewRuns(FilesOf(data))

\* lines 269-305 after the text area returned ss.current_query:
\* [ss, status, fail, setup, endpoint, cached]
GenerateBranch(ss, setup_fails, g) ==
    LET user_query == ss.current_query
        out(st, fl, su, en, ca, s2) ==
            [ss |-> s2, status |-> st, fail |-> fl, setup |-> su, endpoint |-> en, cached |-> ca] IN
    IF user_query \in BlankQueries
    THEN out("returned", "empty_description", FALSE, FALSE, model_cached, ss)
    ELSE IF CredentialMissing(api_key)
    THEN out("returned", "no_credential", FALSE, FALSE, model_cached, ss)
    ELSE IF ~model_cached /\ setup_fails
    THEN out("returned", "setup_failed", TRUE, FALSE, FALSE, ss)
    ELSE LET result == g.out.result
             fail == g.out.fail
             isError == ErrorIn(result) IN
         IF isError = "TypeError"
         THEN out("crashed", fail, TRUE, TRUE, TRUE, ss)
         ELSE IF isError = "true"
         THEN out("returned", fail, TRUE, TRUE, TRUE, ss)
         ELSE out("stored", fail, TRUE, TRUE, TRUE,
                  \* lines 297-305, and the text area of the rerun
                  TextArea([ss EXCEPT !.generated_data = result,
                                      !.show_scroll_message = TRUE]))

Commit(ss) ==
    /\ generated_data' = ss.generated_data
    /\ current_query' = ss.current_query
    /\ show_scroll_message' = ss.show_scroll_message
    /\ widget_value' = ss.widget_value
    /\ widget_param' = ss.widget_param

Init ==
    /\ generated_data = NoneVal
    /\ current_query = ""
    /\ show_scroll_message = FALSE
    /\ widget_value = ""
    /\ widget_param = ""
    /\ key_identity \in BOOLEAN
    /\ api_key \in {"unset", "empty", "set"}
    /\ model_cached = FALSE
    /\ last_event = "none"
    /\ last_status = "none"
    /\ last_fail = "none"
    /\ prev_generated = NoneVal
    /\ last_reply = <<>>
    /\ called_setup = FALSE
    /\ called_endpoint = FALSE
    /\ ParseIdle
    /\ ArchiveIdle

NoGenerate ==
    /\ last_fail' = "none"
    /\ last_reply' = <<>>
    /\ called_setup' = FALSE
    /\ called_endpoint' = FALSE
    /\ prev_generated' = generated_data
    /\ UNCHANGED <<key_identity, api_key, model_cached, parse_vars, archive_vars>>

\* the user edits the text area: a script run with no button pressed
Type ==
    /\ \E q \in Queries :
        Commit(TextArea([Session EXCEPT !.widget_value = q]))
    /\ last_event' = "type"
    /\ last_status' = "returned"
    /\ NoGenerate

\* lines 243-246: an example button, then the rerun it asks for
ExampleClick ==
    /\ \E q \in ExampleQueries :
        Commit(TextArea([Session EXCEPT !.current_query = q]))
    /\ last_event' = "example"
    /\ last_status' = "returned"
    /\ NoGenerate

\* lines 269-305: the Generate button
GenerateClick ==
    /\ \E setup_fails \in BOOLEAN, g \in Generations :
        LET r == GenerateBranch(TextArea(Session), setup_fails, g) IN
        /\ Commit(r.ss)
        /\ last_status' = r.status
        /\ last_fail' = r.fail
        /\ called_setup' = r.setup
        /\ called_endpoint' = r.endpoint
        /\ model_cached' = r.cached
        /\ last_reply' = IF r.endpoint /\ ~g.reply.raised THEN g.reply.text ELSE <<>>
    /\ last_event' = "generate"
    /\ prev_generated' = generated_data
    /\ UNCHANGED <<key_identity, api_key, parse_vars, archive_vars>>

\* lines 410-417: the Clear button, then the rerun it asks for
ClearClick ==
    /\ ClearRendered(generated_data)
    /\ Commit(TextArea([TextArea(Session) EXCEPT !.generated_data = NoneVal,
                                                 !.current_query = "",
                                                 !.show_scroll_message = FALSE]))
    /\ last_event' = "clear"
    /\ last_status' = "returned"
    /\ NoGenerate

Next ==
    \/ Type
    \/ ExampleClick
    \/ GenerateClick
    \/ ClearClick

Spec == Init /\ [][Next]_vars

-----------------------------------------------------------------------------
(* The session claims *)

IsStr(d, k) == HasKey(d, Key(k)) /\ DictGet(d, Key(k)).kind = "str"

\* project_name, description, features and at least one {path, content} file
WellFormedProject(v) ==
    /\ v.kind = "dict"
    /\ IsStr(v, "project_name")
    /\ IsStr(v, "description")
    /\ HasKey(v, Key("features"))
    /\ DictGet(v, Key("features")).kind = "list"
    /\ HasKey(v, Key("files"))
    /\ LET files == DictGet(v, Key("files")) IN
        /\ files.kind = "list"
        /\ files.kids # <<>>
        /\ \A i \in 1..Len(files.kids) :
            IsStr(files.kids[i], "path") /\ IsStr(files.kids[i], "content")

\* C1: in every reachable state generated_data is None or a fully populated
\* project; no reply the parser accepts puts anything else there.
GeneratedDataAbsentOrFull ==
    generated_data = NoneVal \/ WellFormedProject(generated_data)

GenerateFailed == last_event = "generate" /\ last_fail # "none"

\* C2: a Generate that fails (empty description, missing credential, model
\* setup failure, endpoint exception, unparseable reply) leaves
\* generated_data as it was.
FailedGenerateKeepsData ==
    GenerateFailed => generated_data = prev_generated

\* an unparseable reply arrived while a project was held, and the project stayed
FailedGenerateWitness ==
    /\ last_event = "generate"
    /\ last_fail = "unparseable"
    /\ called_endpoint
    /\ WellFormedProject(prev_generated)
    /\ generated_data = prev_generated

\* some strategy yields a JSON object of the expected shape
Recoverable(t) ==
    \/ WholeText(t).ok /\ WellFormedProject(WholeText(t).val)
    \/ FirstFencedBlock(t).ok /\ WellFormedProject(FirstFencedBlock(t).val)
    \/ FirstToLastBrace(t).ok /\ WellFormedProject(FirstToLastBrace(t).val)

\* C3: a reply with no recoverable JSON object makes parse_json_response
\* raise, the generation fail, and nothing is stored in generated_data.
UnrecoverableReplyFails ==
    (last_event = "generate" /\ called_endpoint /\ last_reply # <<>>
        /\ ~Recoverable(last_reply)) =>
        /\ parse_json_response(last_reply).status = "raised"
        /\ last_fail = "unparseable"
        /\ last_status # "stored"
        /\ generated_data = prev_generated

\* C8: a Generate with GOOGLE_API_KEY unset calls neither setup_ai nor the
\* endpoint, and with a description given it stops on the credential error.
NoCallWithoutCredential ==
    (last_event = "generate" /\ api_key = "unset") =>
        /\ ~called_endpoint
        /\ ~called_setup
        /\ ~model_cached
        /\ last_status = "returned"
        /\ last_fail \in {"empty_description", "no_credential"}
        /\ (current_query \notin BlankQueries) => last_fail = "no_credential"
        /\ generated_data = prev_generated

\* Generate pressed with a description and no credential
NoCallWitness ==
    /\ last_event = "generate"
    /\ api_key = "unset"
    /\ current_query = "a blog"
    /\ last_fail = "no_credential"
    /\ ~called_endpoint

\* C9: after Clear of a generated project and the rerun Clear asks for,
\* generated_data is None, current_query is the empty string (the text area
\* does not put its text back) and show_scroll_message is False.
ClearResetsAll ==
    (last_event = "clear" /\ WellFormedProject(prev_generated)) =>
        /\ generated_data = NoneVal
        /\ current_query = ""
        /\ show_scroll_message = FALSE

====
